---------------------------- MODULE Spec2Model ----------------------------
(* Momento funnel simulators: run_simulation (growth_simulation.py) and    *)
(* run_gtm_simulation (gtm_simulation.py), modelled month step by month    *)
(* step together with the IEEE-754 double arithmetic that int(x * rate)    *)
(* goes through.                                                           *)
EXTENDS Integers, Sequences, FiniteSets, TLC

VARIABLES prog, config, months, tiktok_scenario, pc, month, locals, results, returned, called

vars == <<prog, config, months, tiktok_scenario, pc, month, locals, results, returned, called>>

(***************************************************************************)
(* Bounds of the exploration.                                              *)
(***************************************************************************)
MaxMonths == 8
MaxNegMonths == 2
MaxCalls == 2

(***************************************************************************)
(* Python float arithmetic.  A decimal literal p/d of the source is the    *)
(* pair <<p, d>>.  The double that Python makes of it is described by the  *)
(* record [P, D, C, Q]: its exact value is P/D + C/(D * 2^Q), where 2^-Q   *)
(* is the spacing of the doubles around it (Q = 52 - exponent).  C is the  *)
(* representation error of the literal in units of 1/(D * 2^Q); it is      *)
(* computed with modular arithmetic, so that no 53-bit number is needed.   *)
(***************************************************************************)
RECURSIVE Pow2(_)
Pow2(n) == IF n <= 0 THEN 1 ELSE 2 * Pow2(n - 1)

RECURSIVE PowMod2(_, _)
PowMod2(n, m) == IF n <= 0 THEN 1 % m ELSE (2 * PowMod2(n - 1, m)) % m

\* floor(log2(n)) for an integer n >= 1
RECURSIVE Log2Floor(_)
Log2Floor(n) == IF n < 2 THEN 0 ELSE 1 + Log2Floor(n \div 2)

\* the binary exponent e of p/d > 0: 2^e <= p/d < 2^(e+1)
RECURSIVE Exponent(_, _)
Exponent(p, d) ==
    IF p >= 2 * d THEN 1 + Exponent(p, 2 * d)
    ELSE IF p < d THEN Exponent(2 * p, d) - 1
    ELSE 0

\* float("p/d"): the double nearest to the decimal literal
Float(dec) ==
    LET p == dec[1]
        d == dec[2]
    IN  IF p = 0 THEN [P |-> 0, D |-> d, C |-> 0, Q |-> 0]
        ELSE LET Q   == 52 - Exponent(p, d)
                 rho == (p * PowMod2(Q, d)) % d
             IN  [P |-> p, D |-> d, Q |-> Q,
                  C |-> IF 2 * rho < d THEN 0 - rho ELSE d - rho]

\* v * 0.5 : exact, the exponent drops by one
FloatHalf(v) == [P |-> v.P, D |-> 2 * v.D, C |-> 2 * v.C, Q |-> v.Q + 1]

\* 1 - v for a double 0 <= v <= 1, rounded to nearest, ties to even
FloatOneMinus(v) ==
    IF v.P = 0 THEN [P |-> 1, D |-> 1, C |-> 0, Q |-> 52]
    ELSE IF v.P = v.D THEN [P |-> 0, D |-> 1, C |-> 0, Q |-> 0]
    ELSE LET P2 == v.D - v.P
             Q2 == 52 - Exponent(P2, v.D)
         IN  IF Q2 >= v.Q
             THEN [P |-> P2, D |-> v.D, C |-> (0 - v.C) * Pow2(Q2 - v.Q), Q |-> Q2]
             ELSE LET s    == v.Q - Q2
                      m    == Pow2(s + 1)
                      Mm   == (((v.P * PowMod2(v.Q, v.D * m)) + v.C) % (v.D * m)) \div v.D
                      K    == (0 - Mm) % m
                      r    == K % Pow2(s)
                      odd  == K \div Pow2(s)
                      h    == Pow2(s - 1)
                      adj  == IF r < h THEN 0 - r
                              ELSE IF r > h THEN Pow2(s) - r
                              ELSE IF odd = 1 THEN Pow2(s) - r ELSE 0 - r
                      num  == adj * v.D - v.C
                  IN  [P |-> P2, D |-> v.D, Q |-> Q2,
                       C |-> IF num >= 0 THEN num \div Pow2(s)
                             ELSE 0 - ((0 - num) \div Pow2(s))]

\* int(a * v) for an integer a >= 0 and a double v >= 0: the product is
\* rounded to the nearest double and then truncated.  It is floor(a*P/D)
\* unless a*P/D is an integer n and the rounded product falls below n.
IntMulNonNeg(a, v) ==
    LET n == (a * v.P) \div v.D
    IN  IF (a * v.P) % v.D # 0 \/ n = 0 \/ v.C >= 0 THEN n
        ELSE LET k   == Log2Floor(n)
                 x   == v.Q + k - 53 - (IF n = Pow2(k) THEN 1 ELSE 0)
                 lhs == a * (0 - v.C) * Pow2(0 - x)
                 rhs == v.D * Pow2(x)
             IN  IF lhs > rhs THEN n - 1 ELSE n

\* int(a * v) for any integer a: int() truncates toward zero
IntMul(a, v) == IF a < 0 THEN 0 - IntMulNonNeg(0 - a, v) ELSE IntMulNonNeg(a, v)

(***************************************************************************)
(* Python's true division a / b of two ints.  The quotient is kept as the  *)
(* reduced fraction <<n, d>> (the double is its correctly rounded value);  *)
(* a zero divisor raises ZeroDivisionError.                                *)
(***************************************************************************)
RECURSIVE Gcd(_, _)
Gcd(a, b) == IF b = 0 THEN a ELSE Gcd(b, a % b)

ZeroDivisionError == "ZeroDivisionError"

TrueDiv(a, b) ==
    IF b = 0 THEN ZeroDivisionError
    ELSE LET g == Gcd(a, b) IN <<a \div g, b \div g>>

\* the literal 0 of the "else 0" branches
Zero == <<0, 1>>

(***************************************************************************)
(* Money.  A price is the decimal literal <<p, 100>>, and an amount is the *)
(* decimal value of the float the code holds, counted in pence.            *)
(***************************************************************************)
\* the price truncated to whole pounds before the multiplication
RevenueWholePounds(premium_upgrades, price) ==
    premium_upgrades * (price[1] \div price[2]) * price[2]

Revenue(premium_upgrades, price) == premium_upgrades * price[1]

\* cumulative_revenue = revenue instead of +=
AddRevenueOverwrites(cumulative_revenue, revenue) == revenue

AddRevenue(cumulative_revenue, revenue) == cumulative_revenue + revenue

(***************************************************************************)
(* growth_simulation.py                                                    *)
(***************************************************************************)
SimulationConfig ==
    [initial_hosts                 |-> 50,
     events_per_host_per_month     |-> <<8, 10>>,
     avg_attendees_per_event       |-> 8,
     attendees_already_have_app    |-> <<3, 10>>,
     post_reveal_upgrade_rate      |-> <<25, 100>>,
     web_album_share_rate          |-> <<7, 10>>,
     non_app_viewers_per_share     |-> 5,
     web_viewer_download_rate      |-> <<4, 10>>,
     download_to_install_rate      |-> <<15, 100>>,
     new_install_becomes_host_rate |-> <<3, 10>>,
     host_monthly_retention        |-> <<85, 100>>,
     premium_price_gbp             |-> <<799, 100>>]

\* range(1, months): the last month is dropped
LoopStopsEarly(m, n) == m < n

\* a loop that tests its bound only after the first iteration
LoopRunsOnce(m, n) == m <= n \/ m = 1

\* for month in range(1, months + 1)
LoopContinues(m, n) == m <= n

\* cumulative_revenue kept from the previous invocation (module-level state)
GrowthInitLocalsKeepsRevenue(cfg) ==
    [total_hosts        |-> cfg.initial_hosts,
     active_hosts       |-> cfg.initial_hosts,
     total_app_users    |-> cfg.initial_hosts,
     cumulative_revenue |-> IF locals = <<>> THEN 0 ELSE locals.cumulative_revenue]

\* active_hosts seeded from the default configuration instead of the argument
GrowthInitLocalsFromDefault(cfg) ==
    [total_hosts        |-> cfg.initial_hosts,
     active_hosts       |-> 50,
     total_app_users    |-> cfg.initial_hosts,
     cumulative_revenue |-> 0]

\* the initial hosts not counted as app users
GrowthInitLocalsNoAppUsers(cfg) ==
    [total_hosts        |-> cfg.initial_hosts,
     active_hosts       |-> cfg.initial_hosts,
     total_app_users    |-> 0,
     cumulative_revenue |-> 0]

GrowthInitLocals(cfg) ==
    [total_hosts        |-> cfg.initial_hosts,
     active_hosts       |-> cfg.initial_hosts,
     total_app_users    |-> cfg.initial_hosts,
     cumulative_revenue |-> 0]

\* the group size taken for the events-per-host rate
EventsCreatedByGroupSize(active_hosts, cfg) ==
    IntMul(active_hosts, Float(<<cfg.avg_attendees_per_event, 1>>))

EventsCreated(active_hosts, cfg) ==
    IntMul(active_hosts, Float(cfg.events_per_host_per_month))

PremiumUpgrades(events_created, cfg) ==
    IntMul(events_created, Float(cfg.post_reveal_upgrade_rate))

\* the division without its events_created > 0 guard
ConversionRateUnguarded(premium_upgrades, events_created) ==
    TrueDiv(premium_upgrades, events_created)

ConversionRate(premium_upgrades, events_created) ==
    IF events_created > 0 THEN TrueDiv(premium_upgrades, events_created) ELSE Zero

ViralCoefficient(new_hosts, active_hosts) ==
    IF (active_hosts - new_hosts) > 0
    THEN TrueDiv(new_hosts, active_hosts - new_hosts)
    ELSE Zero

\* one iteration of the loop body: the locals after it and the record appended
GrowthMonth(cfg, st, m) ==
    LET events_created == EventsCreated(st.active_hosts, cfg)
        total_attendees == events_created * cfg.avg_attendees_per_event
        new_attendees_without_app ==
            IntMul(total_attendees, FloatOneMinus(Float(cfg.attendees_already_have_app)))
        new_installs_from_events == IntMul(new_attendees_without_app, Float(<<6, 10>>))
        premium_upgrades == PremiumUpgrades(events_created, cfg)
        revenue == Revenue(premium_upgrades, cfg.premium_price_gbp)
        cumulative_revenue == AddRevenue(st.cumulative_revenue, revenue)
        web_albums_shared == IntMul(premium_upgrades, Float(cfg.web_album_share_rate))
        web_album_views == web_albums_shared * cfg.non_app_viewers_per_share
        web_downloads == IntMul(web_album_views, Float(cfg.web_viewer_download_rate))
        installs_from_web == IntMul(web_downloads, Float(cfg.download_to_install_rate))
        new_hosts_from_web == IntMul(installs_from_web, Float(cfg.new_install_becomes_host_rate))
        retained_hosts == IntMul(st.active_hosts, Float(cfg.host_monthly_retention))
        new_hosts_from_events == IntMul(new_installs_from_events, Float(<<2, 10>>))
        new_hosts == new_hosts_from_web + new_hosts_from_events
        total_hosts == st.total_hosts + new_hosts
        active_hosts == retained_hosts + new_hosts
        total_app_users == st.total_app_users + new_installs_from_events + installs_from_web
        conversion_rate == ConversionRate(premium_upgrades, events_created)
        viral_coefficient == ViralCoefficient(new_hosts, active_hosts)
    IN  [locals  |-> [total_hosts        |-> total_hosts,
                      active_hosts       |-> active_hosts,
                      total_app_users    |-> total_app_users,
                      cumulative_revenue |-> cumulative_revenue],
         raised  |-> (conversion_rate = ZeroDivisionError
                      \/ viral_coefficient = ZeroDivisionError),
         metrics |-> [month                        |-> m,
                      total_hosts                  |-> total_hosts,
                      active_hosts                 |-> active_hosts,
                      total_app_users              |-> total_app_users,
                      events_created               |-> events_created,
                      total_attendees              |-> total_attendees,
                      new_app_installs_from_events |-> new_installs_from_events,
                      premium_upgrades             |-> premium_upgrades,
                      revenue_gbp                  |-> revenue,
                      cumulative_revenue_gbp       |-> cumulative_revenue,
                      web_albums_shared            |-> web_albums_shared,
                      web_album_views              |-> web_album_views,
                      web_downloads                |-> web_downloads,
                      installs_from_web            |-> installs_from_web,
                      new_hosts_from_web           |-> new_hosts_from_web,
                      conversion_rate              |-> conversion_rate,
                      viral_coefficient            |-> viral_coefficient]]

(***************************************************************************)
(* gtm_simulation.py                                                       *)
(***************************************************************************)
GTMConfig ==
    [seed_users                     |-> 50,
     seed_events_per_user_per_month |-> <<12, 10>>,
     seed_avg_group_size            |-> 8,
     seed_upgrade_rate              |-> <<35, 100>>,
     hijack_attendees_per_rave      |-> 400,
     hijack_raves_per_month         |-> 2,
     hijack_app_install_rate        |-> <<25, 100>>,
     hijack_upgrade_rate            |-> <<0, 10>>,
     hijack_becomes_host_rate       |-> <<5, 100>>,
     tiktok_monthly_installs_low    |-> 50,
     tiktok_monthly_installs_mid    |-> 200,
     tiktok_monthly_installs_high   |-> 1000,
     tiktok_install_to_host_rate    |-> <<15, 100>>,
     tiktok_upgrade_rate            |-> <<20, 100>>,
     festival_attendees             |-> 5000,
     festival_app_install_rate      |-> <<10, 100>>,
     festival_becomes_host_rate     |-> <<3, 100>>,
     premium_price                  |-> <<799, 100>>,
     monthly_churn_rate             |-> <<15, 100>>,
     events_per_host_per_month      |-> <<6, 10>>,
     avg_group_size                 |-> 6,
     general_upgrade_rate           |-> <<25, 100>>,
     web_share_rate                 |-> <<70, 100>>,
     web_viewers_per_share          |-> 5,
     web_download_rate              |-> <<40, 100>>,
     web_download_to_install        |-> <<15, 100>>,
     web_install_to_host            |-> <<25, 100>>]

Scenarios == {"low", "mid", "high"}

\* the dict lookup {...}[tiktok_scenario]
TikTokInstalls(cfg, scenario) ==
    CASE scenario = "low"  -> cfg.tiktok_monthly_installs_low
      [] scenario = "mid"  -> cfg.tiktok_monthly_installs_mid
      [] scenario = "high" -> cfg.tiktok_monthly_installs_high

\* the web-loop pool kept from the previous invocation (module-level state)
GTMInitLocalsKeepsWebUsers(cfg, scenario) ==
    [seed_users         |-> 0,
     b2b_users          |-> 0,
     tiktok_users       |-> 0,
     festival_users     |-> 0,
     web_loop_users     |-> IF locals = <<>> THEN 0 ELSE locals.web_loop_users,
     seed_hosts         |-> 0,
     organic_hosts      |-> 0,
     cumulative_revenue |-> 0,
     tiktok_installs    |-> TikTokInstalls(cfg, scenario)]

GTMInitLocals(cfg, scenario) ==
    [seed_users         |-> 0,
     b2b_users          |-> 0,
     tiktok_users       |-> 0,
     festival_users     |-> 0,
     web_loop_users     |-> 0,
     seed_hosts         |-> 0,
     organic_hosts      |-> 0,
     cumulative_revenue |-> 0,
     tiktok_installs    |-> TikTokInstalls(cfg, scenario)]

\* the branches of: if month <= 2 / elif month <= 4 / elif month <= 6 / else
\* if month < 2: the seed phase lasts one month only
SeedPhaseOneMonth(m) == m < 2

SeedPhase(m) == m <= 2

\* elif month <= 3: the B2B test lasts one month and TikTok starts in month 4
B2BPhaseOneMonth(m) == ~SeedPhase(m) /\ m <= 3

B2BPhase(m) == ~SeedPhase(m) /\ m <= 4

TikTokPhase(m) == ~SeedPhase(m) /\ ~B2BPhase(m) /\ m <= 6

FestivalPhase(m) == ~SeedPhase(m) /\ ~B2BPhase(m) /\ ~TikTokPhase(m)

Phase(m) ==
    IF SeedPhase(m) THEN "Seed (Friends)"
    ELSE IF B2BPhase(m) THEN "Hijack B2B"
    ELSE IF TikTokPhase(m) THEN "TikTok/UGC"
    ELSE "Festival + TikTok"

\* int(attendees * raves * install_rate * partners): the int product times the
\* rate is a double, and multiplying a double by partners (1 or 2) is exact
RaveInstalls(cfg, partners) ==
    IntMul(cfg.hijack_attendees_per_rave * cfg.hijack_raves_per_month * partners,
           Float(cfg.hijack_app_install_rate))

\* no ramp: the full TikTok rate already in month 5
RampFactorNoRamp(m) == Float(<<10, 10>>)

\* ramp_factor = 0.5 if month == 5 else 1.0
RampFactor(m) == IF m = 5 THEN Float(<<5, 10>>) ELSE Float(<<10, 10>>)

\* the if / elif chain on the month, and the "continue B2B" block after it
GTMAcquire(cfg, st, m) ==
    LET seed == (SeedPhase(m) /\ m = 1)
        b2bTest == B2BPhase(m)
        ramp == TikTokPhase(m)
        fest == FestivalPhase(m)
        test_rave_installs == RaveInstalls(cfg, 1)
        monthly_tiktok ==
            IF ramp THEN IntMul(st.tiktok_installs, RampFactor(m))
            ELSE IF fest THEN st.tiktok_installs
            ELSE 0
        new_hosts_from_tiktok ==
            IF ramp \/ fest
            THEN IntMul(monthly_tiktok, Float(cfg.tiktok_install_to_host_rate))
            ELSE 0
        festival_installs ==
            IF fest /\ m = 7
            THEN IntMul(cfg.festival_attendees, Float(cfg.festival_app_install_rate))
            ELSE 0
        new_hosts_from_festival ==
            IF fest /\ m = 7
            THEN IntMul(festival_installs, Float(cfg.festival_becomes_host_rate))
            ELSE 0
        partners == IF m <= 6 THEN 1 ELSE 2
        more_rave_installs == IF m > 4 THEN RaveInstalls(cfg, partners) ELSE 0
        rave_installs == IF b2bTest THEN test_rave_installs ELSE more_rave_installs
        new_hosts_from_b2b == IntMul(rave_installs, Float(cfg.hijack_becomes_host_rate))
    IN  [new_users_from_seed     |-> IF seed THEN cfg.seed_users ELSE 0,
         new_users_from_b2b      |-> rave_installs,
         new_users_from_tiktok   |-> monthly_tiktok,
         new_users_from_festival |-> festival_installs,
         seed_users     |-> IF seed THEN cfg.seed_users ELSE st.seed_users,
         seed_hosts     |-> IF seed THEN cfg.seed_users ELSE st.seed_hosts,
         b2b_users      |-> st.b2b_users + rave_installs,
         tiktok_users   |-> st.tiktok_users + monthly_tiktok,
         festival_users |-> st.festival_users + festival_installs,
         organic_hosts  |-> st.organic_hosts + new_hosts_from_tiktok
                            + new_hosts_from_festival + new_hosts_from_b2b]

\* seed_hosts after churn: int(seed_hosts * (1 - monthly_churn_rate * 0.5))
SeedChurn(seed_hosts, cfg) ==
    IntMul(seed_hosts, FloatOneMinus(FloatHalf(Float(cfg.monthly_churn_rate))))

\* organic_hosts after churn: int(organic_hosts * (1 - monthly_churn_rate))
OrganicChurn(organic_hosts, cfg) ==
    IntMul(organic_hosts, FloatOneMinus(Float(cfg.monthly_churn_rate)))

\* the seed group size taken for the seed events-per-user rate
SeedEventsByGroupSize(seed_hosts, cfg) ==
    IntMul(seed_hosts, Float(<<cfg.seed_avg_group_size, 1>>))

SeedEvents(seed_hosts, cfg) ==
    IntMul(seed_hosts, Float(cfg.seed_events_per_user_per_month))

OrganicEvents(organic_hosts, cfg) ==
    IntMul(organic_hosts, Float(cfg.events_per_host_per_month))

\* the festival pool left out of the total
TotalUsersWithoutFestival(seed_users, b2b_users, tiktok_users, festival_users, web_loop_users) ==
    seed_users + b2b_users + tiktok_users + web_loop_users

TotalUsers(seed_users, b2b_users, tiktok_users, festival_users, web_loop_users) ==
    seed_users + b2b_users + tiktok_users + festival_users + web_loop_users

ActiveUsers(total_users, seed_hosts, organic_hosts) ==
    seed_hosts + organic_hosts
    + IntMul(total_users - seed_hosts - organic_hosts, Float(<<3, 10>>))

\* one iteration of the loop body: the locals after it and the record appended
GTMMonth(cfg, st, m) ==
    LET acq == GTMAcquire(cfg, st, m)
        seed_hosts == SeedChurn(acq.seed_hosts, cfg)
        churned_organic_hosts == OrganicChurn(acq.organic_hosts, cfg)
        seed_events == SeedEvents(seed_hosts, cfg)
        organic_events == OrganicEvents(churned_organic_hosts, cfg)
        total_events == seed_events + organic_events
        seed_upgrades == IntMul(seed_events, Float(cfg.seed_upgrade_rate))
        organic_upgrades == IntMul(organic_events, Float(cfg.general_upgrade_rate))
        total_upgrades == seed_upgrades + organic_upgrades
        revenue == Revenue(total_upgrades, cfg.premium_price)
        cumulative_revenue == AddRevenue(st.cumulative_revenue, revenue)
        web_albums_shared == IntMul(total_upgrades, Float(cfg.web_share_rate))
        web_views == web_albums_shared * cfg.web_viewers_per_share
        web_downloads == IntMul(web_views, Float(cfg.web_download_rate))
        web_installs == IntMul(web_downloads, Float(cfg.web_download_to_install))
        web_new_hosts == IntMul(web_installs, Float(cfg.web_install_to_host))
        web_loop_users == st.web_loop_users + web_installs
        organic_hosts == churned_organic_hosts + web_new_hosts
        total_users == TotalUsers(acq.seed_users, acq.b2b_users, acq.tiktok_users,
                                  acq.festival_users, web_loop_users)
        active_users == ActiveUsers(total_users, seed_hosts, organic_hosts)
    IN  [locals  |-> [seed_users         |-> acq.seed_users,
                      b2b_users          |-> acq.b2b_users,
                      tiktok_users       |-> acq.tiktok_users,
                      festival_users     |-> acq.festival_users,
                      web_loop_users     |-> web_loop_users,
                      seed_hosts         |-> seed_hosts,
                      organic_hosts      |-> organic_hosts,
                      cumulative_revenue |-> cumulative_revenue,
                      tiktok_installs    |-> st.tiktok_installs],
         raised  |-> FALSE,
         metrics |-> [month                   |-> m,
                      phase                   |-> Phase(m),
                      new_users_from_seed     |-> acq.new_users_from_seed,
                      new_users_from_b2b      |-> acq.new_users_from_b2b,
                      new_users_from_tiktok   |-> acq.new_users_from_tiktok,
                      new_users_from_festival |-> acq.new_users_from_festival,
                      total_users             |-> total_users,
                      active_users            |-> active_users,
                      events_created          |-> total_events,
                      premium_upgrades        |-> total_upgrades,
                      revenue                 |-> revenue,
                      cumulative_revenue      |-> cumulative_revenue,
                      web_album_views         |-> web_views,
                      installs_from_web       |-> web_installs]]

(***************************************************************************)
(* The inputs explored.                                                    *)
(***************************************************************************)
InitialHostsValues == {0, 1, 50, 90}
EventRates == {<<0, 10>>, <<7, 10>>, <<8, 10>>, <<10, 10>>, <<12, 10>>}
UpgradeRates == {<<0, 100>>, <<25, 100>>, <<100, 100>>}
RetentionRates == {<<0, 100>>, <<7, 10>>, <<85, 100>>, <<100, 100>>}

GrowthConfigs ==
    {[SimulationConfig EXCEPT !.initial_hosts = h,
                              !.events_per_host_per_month = e,
                              !.post_reveal_upgrade_rate = u,
                              !.host_monthly_retention = r] :
        h \in InitialHostsValues, e \in EventRates,
        u \in UpgradeRates, r \in RetentionRates}

SeedUsersValues == {0, 1, 50}
RaveSizes == {0, 400}
ChurnRates == {<<0, 100>>, <<15, 100>>}

GTMConfigs ==
    {[GTMConfig EXCEPT !.seed_users = s,
                       !.hijack_attendees_per_rave = a,
                       !.monthly_churn_rate = c] :
        s \in SeedUsersValues, a \in RaveSizes, c \in ChurnRates}

NoLocals == <<>>

(***************************************************************************)
(* The state machine: a caller invokes the simulator, the loop runs one    *)
(* month per step, the function returns its list, and the caller may       *)
(* invoke it again; the list of the finished call lives on in `returned`.  *)
(***************************************************************************)
Init ==
    /\ prog \in {"growth", "gtm"}
    /\ config \in (IF prog = "growth" THEN GrowthConfigs ELSE GTMConfigs)
    /\ months \in (0 - MaxNegMonths)..MaxMonths
    /\ tiktok_scenario \in (IF prog = "gtm" THEN Scenarios ELSE {"none"})
    /\ pc = "call"
    /\ month = 0
    /\ locals = NoLocals
    /\ results = <<>>
    /\ returned = <<>>
    /\ called = <<>>

\* entry of run_simulation / run_gtm_simulation: the initialisation before the loop
Call ==
    /\ pc = "call"
    /\ results' = <<>>
    /\ locals' = (IF prog = "growth" THEN GrowthInitLocals(config)
                  ELSE GTMInitLocals(config, tiktok_scenario))
    /\ month' = 1
    /\ pc' = "loop"
    /\ UNCHANGED <<prog, config, months, tiktok_scenario, returned, called>>

AfterMonth(step) ==
    /\ locals' = step.locals
    /\ IF step.raised
       THEN pc' = "raised" /\ UNCHANGED <<results, month>>
       ELSE /\ results' = Append(results, step.metrics)
            /\ month' = month + 1
            /\ pc' = "loop"
    /\ UNCHANGED <<prog, config, months, tiktok_scenario, returned, called>>

\* one iteration of run_simulation's loop
GrowthStep ==
    /\ pc = "loop"
    /\ prog = "growth"
    /\ LoopContinues(month, months)
    /\ AfterMonth(GrowthMonth(config, locals, month))

\* one iteration of run_gtm_simulation's loop
GTMStep ==
    /\ pc = "loop"
    /\ prog = "gtm"
    /\ LoopContinues(month, months)
    /\ AfterMonth(GTMMonth(config, locals, month))

\* return results
Return ==
    /\ pc = "loop"
    /\ ~LoopContinues(month, months)
    /\ pc' = "done"
    /\ returned' = Append(returned, results)
    /\ called' = Append(called, [months |-> months, tiktok_scenario |-> tiktok_scenario])
    /\ UNCHANGED <<prog, config, months, tiktok_scenario, month, locals, results>>

\* final = results[-1] raises IndexError exactly on an empty list
LastRaisesIndexError(seq) == Len(seq) = 0

\* print_results / print_gtm_results: the table loop, then final = results[-1]
\* and the summary lines
PrintResults ==
    /\ pc = "done"
    /\ pc' = (IF LastRaisesIndexError(results) THEN "index_error" ELSE "reported")
    /\ UNCHANGED <<prog, config, months, tiktok_scenario, month, locals, results,
                   returned, called>>

\* the caller invokes the simulator again with identical arguments
CallAgain ==
    /\ pc \in {"done", "reported"}
    /\ Len(returned) < MaxCalls
    /\ pc' = "call"
    /\ results' = <<>>
    /\ UNCHANGED <<prog, config, months, tiktok_scenario, month, locals,
                   returned, called>>

\* the caller invokes the simulator again with a run length one month longer
CallLonger ==
    /\ pc \in {"done", "reported"}
    /\ Len(returned) < MaxCalls
    /\ months < MaxMonths
    /\ months' = months + 1
    /\ pc' = "call"
    /\ results' = <<>>
    /\ UNCHANGED <<prog, config, tiktok_scenario, month, locals, returned, called>>

\* the caller invokes run_gtm_simulation again with another scenario
CallOtherScenario ==
    /\ pc \in {"done", "reported"}
    /\ prog = "gtm"
    /\ Len(returned) < MaxCalls
    /\ tiktok_scenario' \in Scenarios \ {tiktok_scenario}
    /\ pc' = "call"
    /\ results' = <<>>
    /\ UNCHANGED <<prog, config, months, month, locals, returned, called>>

Next ==
    \/ Call
    \/ GrowthStep
    \/ GTMStep
    \/ Return
    \/ PrintResults
    \/ CallAgain
    \/ CallLonger
    \/ CallOtherScenario

Spec == Init /\ [][Next]_vars

(***************************************************************************)
(* Properties.                                                             *)
(***************************************************************************)
RevenueOf(r) == IF prog = "growth" THEN r.revenue_gbp ELSE r.revenue

CumulativeOf(r) == IF prog = "growth" THEN r.cumulative_revenue_gbp ELSE r.cumulative_revenue

PriceOf(cfg) == IF prog = "growth" THEN cfg.premium_price_gbp ELSE cfg.premium_price

\* C1: for months >= 0 the simulator returns exactly `months` records and the
\* i-th record carries month index i (1, 2, ..., months, no gap, no repeat).
C1_OneRecordPerMonth ==
    (pc = "done" /\ months >= 0) =>
        /\ Len(results) = months
        /\ returned[Len(returned)] = results
        /\ \A i \in 1..Len(results) : results[i].month = i

C1_Witness ==
    /\ pc = "done"
    /\ prog = "gtm"
    /\ months >= 3
    /\ Len(results) = months
    /\ results[months].month = months

\* C2: a zero or negative months count returns the empty sequence, without
\* raising and without executing any month step (no record is ever appended
\* and the loop variable never advances).
C2_NonPositiveMonthsEmpty ==
    months <= 0 =>
        /\ results = <<>>
        /\ pc # "raised"
        /\ month <= 1
        /\ \A i \in 1..Len(returned) : returned[i] = <<>>
        /\ pc \in {"loop", "done"} =>
              locals = (IF prog = "growth" THEN GrowthInitLocals(config)
                        ELSE GTMInitLocals(config, tiktok_scenario))

C2_Witness ==
    /\ pc = "done"
    /\ months < 0
    /\ returned = << <<>> >>

\* C3: cumulative revenue of month m is the cumulative revenue of month m-1
\* (0 before month 1) plus month m's revenue; the revenue is premium upgrades
\* times price and is >= 0, so cumulative revenue never decreases.
C3_CumulativeRevenue ==
    \A i \in 1..Len(results) :
        LET before == IF i = 1 THEN 0 ELSE CumulativeOf(results[i - 1])
        IN  /\ RevenueOf(results[i]) = results[i].premium_upgrades * PriceOf(config)[1]
            /\ RevenueOf(results[i]) >= 0
            /\ CumulativeOf(results[i]) = before + RevenueOf(results[i])
            /\ CumulativeOf(results[i]) >= before

C3_Witness ==
    /\ Len(results) >= 3
    /\ RevenueOf(results[1]) > 0
    /\ RevenueOf(results[3]) > 0
    /\ CumulativeOf(results[3]) > CumulativeOf(results[2])
    /\ CumulativeOf(results[2]) > CumulativeOf(results[1])

\* a decimal literal <<p, d>> lies in [0, 1]
InUnitInterval(dec) == 0 <= dec[1] /\ dec[1] <= dec[2]

\* C4: in run_simulation with events_per_host_per_month in [0,1], the events
\* created in month m are >= 0 and <= the active hosts entering month m
\* (initial_hosts for m = 1, otherwise active_hosts of record m-1).
C4_EventsBoundedByEnteringHosts ==
    (prog = "growth" /\ InUnitInterval(config.events_per_host_per_month)) =>
        \A i \in 1..Len(results) :
            LET entering == IF i = 1 THEN config.initial_hosts
                            ELSE results[i - 1].active_hosts
            IN  /\ results[i].events_created >= 0
                /\ results[i].events_created <= entering

C4_Witness ==
    /\ prog = "growth"
    /\ InUnitInterval(config.events_per_host_per_month)
    /\ Len(results) >= 2
    /\ results[2].events_created > 0
    /\ results[2].events_created = results[1].active_hosts

\* C5 as stated: in run_gtm_simulation with the default GTMConfig, every
\* record has 0 <= events_created <= active_users of the same record.
C5_EventsBoundedByActiveUsers ==
    (prog = "gtm" /\ config = GTMConfig) =>
        \A i \in 1..Len(results) :
            /\ results[i].events_created >= 0
            /\ results[i].events_created <= results[i].active_users

\* C5 amended: with the default GTMConfig every record has events_created >= 0
\* and events_created <= 1.2 x active_users (seed users create 1.2 events per
\* month each, so the events can exceed the active users, as in months 1-2).
C5_EventsBoundedBySeedRate ==
    (prog = "gtm" /\ config = GTMConfig) =>
        \A i \in 1..Len(results) :
            /\ results[i].events_created >= 0
            /\ 10 * results[i].events_created
                  <= GTMConfig.seed_events_per_user_per_month[1] * results[i].active_users

C5_Witness ==
    /\ prog = "gtm"
    /\ config = GTMConfig
    /\ Len(results) >= 3
    /\ results[1].events_created > results[1].active_users
    /\ results[3].events_created < results[3].active_users

\* C6: two invocations with identical configuration, months and scenario
\* return sequences equal field by field, and every invocation starts its
\* loop from the initial running state (nothing survives the previous one).
C6_Deterministic ==
    /\ \A i, j \in 1..Len(returned) : called[i] = called[j] => returned[i] = returned[j]
    /\ (pc = "loop" /\ results = <<>>) =>
          locals.cumulative_revenue = 0

C6_Witness ==
    /\ Len(returned) = 2
    /\ called[1] = called[2]
    /\ prog = "growth"
    /\ Len(returned[2]) >= 3
    /\ returned[2][3].cumulative_revenue_gbp > 0

\* C7: in run_simulation with initial_hosts = 0 every record reports zero
\* events, upgrades, revenue, cumulative revenue and viral coefficient, and
\* active_hosts stays 0.
C7_EmptyPopulationAbsorbing ==
    (prog = "growth" /\ config.initial_hosts = 0) =>
        \A i \in 1..Len(results) :
            /\ results[i].events_created = 0
            /\ results[i].premium_upgrades = 0
            /\ results[i].revenue_gbp = 0
            /\ results[i].cumulative_revenue_gbp = 0
            /\ results[i].viral_coefficient = Zero
            /\ results[i].active_hosts = 0

C7_Witness ==
    /\ prog = "growth"
    /\ config.initial_hosts = 0
    /\ config.events_per_host_per_month = <<12, 10>>
    /\ config.host_monthly_retention = <<100, 100>>
    /\ pc = "done"
    /\ Len(results) >= 3

ZeroSeedConfig == [GTMConfig EXCEPT !.seed_users = 0]

ZeroActivity(r) == r.events_created = 0 /\ r.premium_upgrades = 0 /\ r.revenue = 0

\* C8 as stated: in run_gtm_simulation with seed_users = 0 and otherwise the
\* default GTMConfig, every record reports zero events, upgrades and revenue.
C8_ZeroSeedAllZero ==
    (prog = "gtm" /\ config = ZeroSeedConfig) =>
        \A i \in 1..Len(results) : ZeroActivity(results[i])

\* C8 amended: with seed_users = 0 and otherwise the default GTMConfig, the
\* records of months 1 and 2 (the seed phase) report zero events, upgrades
\* and revenue; from month 3 on the B2B installs bring hosts and events.
C8_ZeroSeedZeroInSeedPhase ==
    (prog = "gtm" /\ config = ZeroSeedConfig) =>
        \A i \in 1..Len(results) : i <= 2 => ZeroActivity(results[i])

C8_Witness ==
    /\ prog = "gtm"
    /\ config = ZeroSeedConfig
    /\ Len(results) >= 3
    /\ ZeroActivity(results[2])
    /\ results[3].events_created > 0

\* q is the quotient a / b, b # 0, as a fraction
IsQuotient(q, a, b) ==
    /\ q # ZeroDivisionError
    /\ q[2] > 0
    /\ b % q[2] = 0
    /\ a = q[1] * (b \div q[2])

\* C9: no month step of run_simulation divides by zero: conversion_rate is
\* premium_upgrades / events_created when events_created > 0, else 0, and
\* viral_coefficient is new_hosts / (active_hosts - new_hosts) on the
\* post-update active_hosts when that denominator is > 0, else 0.
C9_NoDivisionByZero ==
    /\ pc # "raised"
    /\ prog = "growth" =>
          \A i \in 1..Len(results) :
              LET r == results[i]
                  hosts_before == IF i = 1 THEN config.initial_hosts
                                  ELSE results[i - 1].total_hosts
                  new_hosts == r.total_hosts - hosts_before
                  existing == r.active_hosts - new_hosts
              IN  /\ IF r.events_created > 0
                     THEN IsQuotient(r.conversion_rate, r.premium_upgrades, r.events_created)
                     ELSE r.conversion_rate = Zero
                  /\ IF existing > 0
                     THEN IsQuotient(r.viral_coefficient, new_hosts, existing)
                     ELSE r.viral_coefficient = Zero

C9_Witness ==
    /\ prog = "growth"
    /\ pc = "done"
    /\ Len(results) >= 2
    /\ results[1].events_created > 0
    /\ results[1].premium_upgrades > 0
    /\ results[1].total_hosts > config.initial_hosts
    /\ results[1].active_hosts = results[1].total_hosts - config.initial_hosts
    /\ results[Len(results)].events_created = 0

\* C10: with initial_hosts = 50, events_per_host_per_month = 0.8,
\* avg_attendees_per_event = 8, post_reveal_upgrade_rate = 0.25 and
\* premium_price_gbp = 7.99, the month-1 record of run_simulation has
\* events_created = 40, premium_upgrades = 10 and revenue 79.90 (7990 pence).
C10_MonthOneOfDefaults ==
    (/\ prog = "growth"
     /\ config.initial_hosts = 50
     /\ config.events_per_host_per_month = <<8, 10>>
     /\ config.avg_attendees_per_event = 8
     /\ config.post_reveal_upgrade_rate = <<25, 100>>
     /\ config.premium_price_gbp = <<799, 100>>
     /\ Len(results) >= 1) =>
        /\ results[1].events_created = 40
        /\ results[1].premium_upgrades = 10
        /\ results[1].revenue_gbp = 7990

C10_Witness ==
    /\ prog = "growth"
    /\ config = SimulationConfig
    /\ Len(results) >= 1
    /\ results[1].month = 1
    /\ results[1].total_attendees = 320

Min(a, b) == IF a <= b THEN a ELSE b

ExactFloor(a, dec) == (a * dec[1]) \div dec[2]

\* 1 - p/d in exact arithmetic
ExactOneMinus(dec) == <<dec[2] - dec[1], dec[2]>>

\* C12: each record of run_simulation is the per-month chain applied to the
\* active hosts a entering the month, with a floor at every multiplicative
\* step: events = floor(a x events-per-host), attendees = events x group
\* size, installs from events = floor(floor(attendees x (1 - have-app)) x 0.6),
\* upgrades = floor(events x upgrade rate), shares = floor(upgrades x share
\* rate), views = shares x viewers, downloads = floor(views x download rate),
\* installs from web = floor(downloads x install rate), new hosts from web =
\* floor(installs from web x host rate).
C12_ExactFloorChain ==
    prog = "growth" =>
        \A i \in 1..Len(results) :
            LET r == results[i]
                a == IF i = 1 THEN config.initial_hosts ELSE results[i - 1].active_hosts
            IN  /\ r.events_created = ExactFloor(a, config.events_per_host_per_month)
                /\ r.total_attendees = r.events_created * config.avg_attendees_per_event
                /\ r.new_app_installs_from_events =
                      ExactFloor(ExactFloor(r.total_attendees,
                                            ExactOneMinus(config.attendees_already_have_app)),
                                 <<6, 10>>)
                /\ r.premium_upgrades =
                      ExactFloor(r.events_created, config.post_reveal_upgrade_rate)
                /\ r.web_albums_shared =
                      ExactFloor(r.premium_upgrades, config.web_album_share_rate)
                /\ r.web_album_views = r.web_albums_shared * config.non_app_viewers_per_share
                /\ r.web_downloads =
                      ExactFloor(r.web_album_views, config.web_viewer_download_rate)
                /\ r.installs_from_web =
                      ExactFloor(r.web_downloads, config.download_to_install_rate)
                /\ r.new_hosts_from_web =
                      ExactFloor(r.installs_from_web, config.new_install_becomes_host_rate)

\* C13: in both simulators the events of month m are computed from the host
\* population entering month m, before month m's churn is applied to it.
C13_EventsBeforeChurn ==
    [][(pc = "loop" /\ Len(results') = Len(results) + 1) =>
          LET r == results'[Len(results')]
          IN  IF prog = "growth"
              THEN r.events_created = EventsCreated(locals.active_hosts, config)
              ELSE LET acq == GTMAcquire(config, locals, month)
                   IN  r.events_created =
                          SeedEvents(acq.seed_hosts, config)
                          + OrganicEvents(acq.organic_hosts, config)]_vars

\* C14: at the end of each month of run_simulation, new_hosts = new hosts
\* from web + floor(installs from events x 0.2), active_hosts' =
\* floor(active_hosts x host_monthly_retention) + new_hosts, total_hosts' =
\* total_hosts + new_hosts, total_app_users' = total_app_users + installs
\* from events + installs from web, and the record stores these values.
C14_ExactStateUpdate ==
    prog = "growth" =>
        /\ \A i \in 1..Len(results) :
              LET r == results[i]
                  before == IF i = 1
                            THEN [total_hosts     |-> config.initial_hosts,
                                  active_hosts    |-> config.initial_hosts,
                                  total_app_users |-> config.initial_hosts]
                            ELSE results[i - 1]
                  new_hosts == r.new_hosts_from_web
                               + ExactFloor(r.new_app_installs_from_events, <<2, 10>>)
              IN  /\ r.active_hosts =
                        ExactFloor(before.active_hosts, config.host_monthly_retention)
                        + new_hosts
                  /\ r.total_hosts = before.total_hosts + new_hosts
                  /\ r.total_app_users = before.total_app_users
                                         + r.new_app_installs_from_events
                                         + r.installs_from_web
        /\ (pc = "loop" /\ Len(results) > 0) =>
              /\ locals.active_hosts = results[Len(results)].active_hosts
              /\ locals.total_hosts = results[Len(results)].total_hosts
              /\ locals.total_app_users = results[Len(results)].total_app_users

PresetInstalls ==
    IF tiktok_scenario = "low" THEN config.tiktok_monthly_installs_low
    ELSE IF tiktok_scenario = "mid" THEN config.tiktok_monthly_installs_mid
    ELSE config.tiktok_monthly_installs_high

RECURSIVE ChannelTotal(_, _)
ChannelTotal(recs, n) ==
    IF n = 0 THEN 0
    ELSE ChannelTotal(recs, n - 1)
         + recs[n].new_users_from_seed + recs[n].new_users_from_b2b
         + recs[n].new_users_from_tiktok + recs[n].new_users_from_festival
         + recs[n].installs_from_web

\* C16: in run_gtm_simulation, total_users of record m is the sum over the
\* records 1..m of the per-channel new users (seed, B2B, TikTok, festival)
\* and installs_from_web, and total_users never decreases.
C16_TotalUsersIsChannelSum ==
    prog = "gtm" =>
        \A i \in 1..Len(results) :
            /\ results[i].total_users = ChannelTotal(results, i)
            /\ i > 1 => results[i].total_users >= results[i - 1].total_users

C16_Witness ==
    /\ prog = "gtm"
    /\ Len(results) >= 8
    /\ results[1].new_users_from_seed > 0
    /\ results[5].new_users_from_b2b > 0
    /\ results[7].new_users_from_festival > 0
    /\ results[8].installs_from_web > 0
    /\ results[8].total_users > results[7].total_users

RatesInUnitInterval(cfg) ==
    /\ InUnitInterval(cfg.events_per_host_per_month)
    /\ InUnitInterval(cfg.attendees_already_have_app)
    /\ InUnitInterval(cfg.post_reveal_upgrade_rate)
    /\ InUnitInterval(cfg.web_album_share_rate)
    /\ InUnitInterval(cfg.web_viewer_download_rate)
    /\ InUnitInterval(cfg.download_to_install_rate)
    /\ InUnitInterval(cfg.new_install_becomes_host_rate)
    /\ InUnitInterval(cfg.host_monthly_retention)
    /\ cfg.initial_hosts >= 0
    /\ cfg.avg_attendees_per_event >= 0
    /\ cfg.non_app_viewers_per_share >= 0

\* C17: in run_simulation with rates in [0,1] and non-negative counts, every
\* record has 0 <= active_hosts <= total_hosts <= total_app_users, and
\* total_hosts and total_app_users never decrease from month to month.
C17_PopulationOrdering ==
    (prog = "growth" /\ RatesInUnitInterval(config)) =>
        \A i \in 1..Len(results) :
            LET r == results[i]
                hosts_before == IF i = 1 THEN config.initial_hosts
                                ELSE results[i - 1].total_hosts
                users_before == IF i = 1 THEN config.initial_hosts
                                ELSE results[i - 1].total_app_users
            IN  /\ 0 <= r.active_hosts
                /\ r.active_hosts <= r.total_hosts
                /\ r.total_hosts <= r.total_app_users
                /\ r.total_hosts >= hosts_before
                /\ r.total_app_users >= users_before

C17_Witness ==
    /\ prog = "growth"
    /\ RatesInUnitInterval(config)
    /\ Len(results) >= 3
    /\ results[3].active_hosts > 0
    /\ results[3].active_hosts < results[3].total_hosts
    /\ results[3].total_hosts > results[2].total_hosts
    /\ results[3].total_hosts < results[3].total_app_users

\* C18: the output is prefix-stable in the run length: for n >= 0 the
\* records of a run of n months are exactly the first n records of a run of
\* n + 1 months with the same configuration and scenario.
C18_PrefixStable ==
    \A i, j \in 1..Len(returned) :
        (/\ called[i].tiktok_scenario = called[j].tiktok_scenario
         /\ called[i].months >= 0
         /\ called[j].months = called[i].months + 1) =>
            /\ Len(returned[j]) = Len(returned[i]) + 1
            /\ returned[i] = SubSeq(returned[j], 1, Len(returned[i]))

C18_Witness ==
    /\ Len(returned) = 2
    /\ prog = "gtm"
    /\ called[1].tiktok_scenario = called[2].tiktok_scenario
    /\ called[1].months >= 3
    /\ called[2].months = called[1].months + 1
    /\ returned[1][3].installs_from_web > 0

\* C19: with months <= 0 the program reaches no error state: the empty
\* sequence handed to the reporting step is printed without raising.
C19_ReportingNeverRaises ==
    months <= 0 => pc # "index_error"

=============================================================================
